---- MODULE Spec2Model ----
(***************************************************************************)
(* Model of src/report.py: AIEvaluator (quantitative_check,                *)
(* qualitative_check, _call_ai, _get_fallback_error, score) and            *)
(* ReportGenerator.generate.                                               *)
(*                                                                         *)
(* Units.  Python floats that carry two decimals are kept as integers in   *)
(* hundredths: pass_rate 66.67 is 6667, final_score 100.0 is 10000.        *)
(* Python values of unknown type (what json.loads returns) are tagged      *)
(* records: Dict(d), List, Str(s), Num(n), None; a dict's content d is a   *)
(* TLA+ function from its keys to values, {} is the empty function.        *)
(***************************************************************************)
EXTENDS Integers, Sequences, FiniteSets, TLC

\* ------------------------------------------------------------------ bounds
MaxBatch == 3
MaxTests == 4
MaxRateTests == 2

\* ------------------------------------------------------- python values
EmptyDict == [type |-> "dict", d |-> << >>]

Dict(d) == [type |-> "dict", d |-> d]

List == [type |-> "list"]

Str(s) == [type |-> "str", s |-> s]

Num(n) == [type |-> "number", v |-> n]

\* dict.get(key, default) on a value already known to be a dict
Get(v, key, default) == IF key \in DOMAIN v.d THEN v.d[key] ELSE default

\* ------------------------------------------------------- numeric helpers
\* round(num/den, 2 decimals already folded into the unit): nearest integer,
\* ties to even, as Python's round() does on an exactly represented value.
Round2(num, den) ==
    LET q == num \div den
        r == num % den
    IN  IF 2 * r < den THEN q
        ELSE IF 2 * r > den THEN q + 1
        ELSE IF q % 2 = 0 THEN q ELSE q + 1

\* round() of a float quotient whose exact value may be a decimal tie
\* (x.xx5): the binary float lies just above or just below the tie, e.g.
\* round(28.33/2, 2) = 14.16 but round(41.67/2, 2) = 20.84, so both
\* neighbours are possible results; off a tie the result is the nearest.
Round2Float(num, den) ==
    LET q == num \div den
        r == num % den
    IN  IF 2 * r < den THEN {q}
        ELSE IF 2 * r > den THEN {q + 1}
        ELSE {q, q + 1}

RECURSIVE SumSeq(_)
SumSeq(s) == IF s = << >> THEN 0 ELSE Head(s) + SumSeq(Tail(s))

RECURSIVE CountPassed(_)
CountPassed(results) ==
    IF results = << >> THEN 0
    ELSE (IF Head(results) THEN 1 ELSE 0) + CountPassed(Tail(results))

\* ------------------------------------------------------------- WEIGHTS
WEIGHTS_style_omitted ==
    [syntax |-> 15, logic |-> 40, efficiency |-> 20,
     quality |-> 15, style |-> 0]

WEIGHTS == [syntax |-> 15, logic |-> 40, efficiency |-> 20,
            quality |-> 15, style |-> 10]

PassThreshold == 7000

\* -------------------------------------------------- quantitative_check
\* payload: [test_case_results : Seq(BOOLEAN) (the "pass" flags),
\*           syntax_error, runtime_error : BOOLEAN, ...]
\* The division passed/total is guarded by total > 0; an unguarded
\* division would raise ZeroDivisionError.  below100 is the test
\* pass_rate < 100 on the unrounded value, rounded is round(pass_rate, 2).
\* The result is [raised |-> FALSE, value |-> the returned dict] or an
\* exception.
PassRateOf_unguarded(passed, total) ==
    IF total > 0 THEN [raised |-> FALSE, below100 |-> (passed < total),
                       rounded |-> Round2(passed * 10000, total)]
    ELSE [raised |-> TRUE, below100 |-> TRUE, rounded |-> 0]

PassRateOf(passed, total) ==
    IF total > 0 THEN [raised |-> FALSE, below100 |-> (passed < total),
                       rounded |-> Round2(passed * 10000, total)]
    ELSE [raised |-> FALSE, below100 |-> TRUE, rounded |-> 0]

quantitative_check(payload) ==
    LET results == payload.test_case_results
        total   == Len(results)
        passed  == CountPassed(results)
        pr      == PassRateOf(passed, total)
    IN  IF payload.syntax_error
        THEN [raised |-> FALSE,
              value |-> [status |-> "Syntax Error", pass_rate |-> 0,
                         passed_tests |-> 0, total_tests |-> total]]
        ELSE IF pr.raised
        THEN [raised |-> TRUE, exc |-> "ZeroDivisionError"]
        ELSE [raised |-> FALSE,
              value |-> [status |-> IF payload.runtime_error
                                    THEN "Runtime Error"
                                    ELSE IF pr.below100 THEN "Partial Pass"
                                    ELSE "Completed",
                         pass_rate |-> pr.rounded,
                         passed_tests |-> passed,
                         total_tests |-> total]]

\* ------------------------------------------------------------ _call_ai
\* A response of client.models.generate_content: the call raises, or it
\* returns text.  Text is an optional fence around a body; the body is the
\* text of a JSON value or text that is not JSON.
\*   fence "none"   {...}
\*   fence "bare"   ```\n{...}\n```
\*   fence "json"   ```json\n{...}\n```
\*   fence "other"  ```python\n{...}\n```
RaiseResp == [kind |-> "raise"]

Text(fence, body) == [kind |-> "text", fence |-> fence, body |-> body]

JsonText(value) == [json |-> TRUE, value |-> value]

Garbage == [json |-> FALSE]

\* re.search(r"```(?:json)?\s*(.*)\s*```", raw, re.DOTALL): with no fence
\* raw is kept; a bare or json fence leaves the body; any other language
\* tag stays inside group(1), in front of the body.
StripFence(text) ==
    IF text.fence = "other" THEN [junk |-> TRUE, body |-> text.body]
    ELSE [junk |-> FALSE, body |-> text.body]

\* json.loads: the parsed value, or an exception
json_loads(content) ==
    IF content.junk \/ ~content.body.json
    THEN [raised |-> TRUE, exc |-> "JSONDecodeError"]
    ELSE [raised |-> FALSE, value |-> content.body.value]

\* try: ... return json.loads(raw)  except Exception: print(...); return {}
None == [type |-> "None"]

_call_ai_returns_none(resp) ==
    IF resp.kind = "raise" THEN [failed |-> TRUE, value |-> None]
    ELSE LET parsed == json_loads(StripFence(resp))
         IN  IF parsed.raised THEN [failed |-> TRUE, value |-> None]
             ELSE [failed |-> FALSE, value |-> parsed.value]

_call_ai(resp) ==
    IF resp.kind = "raise" THEN [failed |-> TRUE, value |-> EmptyDict]
    ELSE LET parsed == json_loads(StripFence(resp))
         IN  IF parsed.raised THEN [failed |-> TRUE, value |-> EmptyDict]
             ELSE [failed |-> FALSE, value |-> parsed.value]

_get_fallback_error(message) ==
    Dict([technical_analysis |->
              Dict([efficiency_score |-> Num(5), style_score |-> Num(5),
                    critique |-> Str("AI Error")]),
          feedback_for_candidate |->
              Dict([what_went_well |-> Str("N/A"),
                    what_to_improve |-> Str("Error: " \o message)]),
          recruiter_executive_summary |->
              Dict([hiring_decision |-> Str("Undetermined"),
                    final_conclusion |-> Str("AI Service Unavailable")]),
          candidate_holistic_feedback |->
              Dict([major_strength |-> Str("N/A"),
                    major_weakness |-> Str("N/A")])])

\* --------------------------------------------------- qualitative_check
\* called: whether the external model was called; failed: whether
\* _call_ai took its except branch (the "AI GENERATION ERROR" print).
qualitative_check(payload, quant, resp) ==
    IF payload.syntax_error
    THEN [called |-> FALSE, failed |-> FALSE,
          value |-> _get_fallback_error("Syntax Error - Code did not compile.")]
    ELSE LET r == _call_ai(resp)
         IN  [called |-> TRUE, failed |-> r.failed, value |-> r.value]

\* --------------------------------------------------------------- score
\* .get on a value that is not a dict raises AttributeError; dividing a
\* value that is not a number raises TypeError.
ScoreBody(quant, qual, effSign) ==
    IF qual.type # "dict" THEN [raised |-> TRUE, exc |-> "AttributeError"]
    ELSE LET ta == Get(qual, "technical_analysis", EmptyDict)
         IN  IF ta.type # "dict"
             THEN [raised |-> TRUE, exc |-> "AttributeError"]
             ELSE LET eff_score   == Get(ta, "efficiency_score", Num(0))
                      style_score == Get(ta, "style_score", Num(0))
                  IN  IF eff_score.type # "number" \/ style_score.type # "number"
                      THEN [raised |-> TRUE, exc |-> "TypeError"]
                      ELSE [raised |-> FALSE,
                            value |-> Round2(
                                10000 * WEIGHTS.syntax
                                + quant.pass_rate * WEIGHTS.logic
                                + effSign * 1000 * eff_score.v
                                          * WEIGHTS.efficiency
                                + 1000 * style_score.v
                                       * (WEIGHTS.quality + WEIGHTS.style),
                                100)]

score_ignores_syntax_error(quant, qual, syntax_error) ==
    ScoreBody(quant, qual, 1)

score_subtracts_efficiency(quant, qual, syntax_error) ==
    IF syntax_error THEN [raised |-> FALSE, value |-> 0]
    ELSE ScoreBody(quant, qual, -1)

score(quant, qual, syntax_error) ==
    IF syntax_error THEN [raised |-> FALSE, value |-> 0]
    ELSE IF qual.type # "dict" THEN [raised |-> TRUE, exc |-> "AttributeError"]
    ELSE LET ta == Get(qual, "technical_analysis", EmptyDict)
         IN  IF ta.type # "dict"
             THEN [raised |-> TRUE, exc |-> "AttributeError"]
             ELSE LET eff_score   == Get(ta, "efficiency_score", Num(0))
                      style_score == Get(ta, "style_score", Num(0))
                  IN  IF eff_score.type # "number" \/ style_score.type # "number"
                      THEN [raised |-> TRUE, exc |-> "TypeError"]
                      ELSE [raised |-> FALSE,
                            value |-> Round2(
                                10000 * WEIGHTS.syntax
                                + quant.pass_rate * WEIGHTS.logic
                                + 1000 * eff_score.v * WEIGHTS.efficiency
                                + 1000 * style_score.v
                                       * (WEIGHTS.quality + WEIGHTS.style),
                                100)]

\* ------------------------------------------------------------- inputs
\* Submissions a batch is drawn from: all tests passing, a runtime error
\* with half of the tests passing, no test at all, a failing test, and two
\* syntax errors (one with a passing test and the runtime flag set).
Submissions ==
    { [ai_generated_coding_question |-> "Q1", language |-> "Python",
       test_case_results |-> <<TRUE, TRUE>>,
       syntax_error |-> FALSE, runtime_error |-> FALSE],
      [ai_generated_coding_question |-> "Q2", language |-> "Java",
       test_case_results |-> <<TRUE, FALSE>>,
       syntax_error |-> FALSE, runtime_error |-> TRUE],
      [ai_generated_coding_question |-> "Q3", language |-> "C++",
       test_case_results |-> << >>,
       syntax_error |-> FALSE, runtime_error |-> FALSE],
      [ai_generated_coding_question |-> "Q1", language |-> "Java",
       test_case_results |-> <<TRUE>>,
       syntax_error |-> TRUE, runtime_error |-> TRUE],
      [ai_generated_coding_question |-> "Q2", language |-> "Python",
       test_case_results |-> <<FALSE>>,
       syntax_error |-> TRUE, runtime_error |-> FALSE] }

Batches == UNION { [1..n -> Submissions] : n \in 0..MaxBatch }

Critique(eff, style) ==
    Dict([technical_analysis |->
              Dict([efficiency_score |-> eff, style_score |-> style,
                    critique |-> Str("ok")]),
          feedback_for_candidate |->
              Dict([what_went_well |-> Str("ok"),
                    what_to_improve |-> Str("ok")])])

\* Replies of the external model to a qualitative prompt: the call raises,
\* text that is not JSON, JSON behind a foreign language tag, JSON that is
\* not an object, technical_analysis that is not an object, a score that
\* is not a number, a score that is missing, and well-formed critiques.
QualResponses ==
    { RaiseResp,
      Text("none", Garbage),
      Text("other", JsonText(Critique(Num(10), Num(10)))),
      Text("none", JsonText(List)),
      Text("none", JsonText(Dict([technical_analysis |-> Str("n/a")]))),
      Text("json", JsonText(Critique(Str("high"), Num(5)))),
      Text("none", JsonText(Dict([technical_analysis |->
                                    Dict([style_score |-> Num(10)])]))),
      Text("none", JsonText(Critique(Num(10), Num(10)))),
      Text("json", JsonText(Critique(Num(5), Num(10)))),
      Text("bare", JsonText(Critique(Num(5), Num(5)))) }

Summary ==
    Dict([recruiter_executive_summary |->
              Dict([hiring_decision |-> Str("Hire")]),
          candidate_holistic_feedback |->
              Dict([major_strength |-> Str("ok")])])

\* Replies to the synthesis prompt.
SynthResponses ==
    { RaiseResp,
      Text("none", Garbage),
      Text("none", JsonText(List)),
      Text("none", JsonText(Dict([recruiter_executive_summary |->
                                    Dict([hiring_decision |-> Str("Hire")])]))),
      Text("json", JsonText(Summary)) }

\* -------------------------------------------------------------- state
VARIABLES
    pc,          \* position in generate: "loop", "synth", "done", "raised"
    payloads,    \* the argument of generate
    reports,     \* generate's local list
    scores,      \* generate's local list
    overall_avg, \* generate's local, hundredths
    calls,       \* external calls made so far, in order
    result,      \* value returned by generate
    qPayload,    \* argument of the last direct quantitative_check call
    qOut,        \* its result
    sPrev,       \* the direct score call before the last one
    sLast        \* the last direct score call

vars == <<pc, payloads, reports, scores, overall_avg, calls, result,
          qPayload, qOut, sPrev, sLast>>

genVars == <<pc, payloads, reports, scores, overall_avg, calls, result>>

\* -------------------------------------------- synthesize_final_report
\* Building the prompt reads rep['ai_analysis'].get('technical_analysis',
\* {}) and then tech.get(...) for every report, before the single call.
SynthPromptRaises(individual_reports) ==
    \E i \in 1..Len(individual_reports) :
        LET a == individual_reports[i].ai_analysis
        IN  \/ a.type # "dict"
            \/ Get(a, "technical_analysis", EmptyDict).type # "dict"

synthesize_final_report(individual_reports, overall_score, resp) ==
    IF SynthPromptRaises(individual_reports)
    THEN [raised |-> TRUE, exc |-> "AttributeError"]
    ELSE LET r == _call_ai(resp)
         IN  [raised |-> FALSE, failed |-> r.failed, value |-> r.value]

\* ------------------------------------------- ReportGenerator.generate
StatusOf_exclusive(avg) == IF avg > PassThreshold THEN "Passed" ELSE "Failed"

StatusOf(avg) == IF avg >= PassThreshold THEN "Passed" ELSE "Failed"

\* sum(scores) / len(scores) rounded, or 0.0 for no score
OverallAverage(sc) ==
    IF sc # << >> THEN Round2Float(SumSeq(sc), Len(sc)) ELSE {0}

QuestionReport(payload, final_score, quant, qual) ==
    [question    |-> payload.ai_generated_coding_question,
     language    |-> payload.language,
     final_score |-> final_score,
     metrics     |-> quant,
     ai_analysis |-> qual]

AddReport_prepends(reps, rep) == <<rep>> \o reps

AddReport(reps, rep) == Append(reps, rep)

\* one iteration of "for payload in payloads"
AnalyzeQuestion ==
    /\ pc = "loop"
    /\ Len(reports) < Len(payloads)
    /\ \E resp \in QualResponses :
         LET i       == Len(reports) + 1
             payload == payloads[i]
             qc      == quantitative_check(payload)
             quant   == qc.value
         IN  IF qc.raised
             THEN /\ pc' = "raised"
                  /\ UNCHANGED <<reports, scores, calls>>
             ELSE LET qual == qualitative_check(payload, quant, resp)
                      fs   == score(quant, qual.value, payload.syntax_error)
                  IN  /\ calls' = IF qual.called
                                  THEN Append(calls, [kind |-> "qualitative",
                                                      idx |-> i,
                                                      failed |-> qual.failed])
                                  ELSE calls
                      /\ IF fs.raised
                         THEN /\ pc' = "raised"
                              /\ UNCHANGED <<reports, scores>>
                         ELSE /\ scores' = Append(scores, fs.value)
                              /\ reports' = AddReport(reports,
                                     QuestionReport(payload, fs.value,
                                                    quant, qual.value))
                              /\ pc' = "loop"
    /\ UNCHANGED <<payloads, overall_avg, result, qPayload, qOut, sPrev, sLast>>

\* "overall_avg = ..." once the loop has run over every payload
Aggregate ==
    /\ pc = "loop"
    /\ Len(reports) = Len(payloads)
    /\ \E avg \in OverallAverage(scores) : overall_avg' = avg
    /\ pc' = "synth"
    /\ UNCHANGED <<payloads, reports, scores, calls, result,
                   qPayload, qOut, sPrev, sLast>>

\* the synthesis call and the construction of the returned report
Synthesize ==
    /\ pc = "synth"
    /\ \E resp \in SynthResponses :
         LET syn == synthesize_final_report(reports, overall_avg, resp)
         IN  IF syn.raised
             THEN /\ pc' = "raised"
                  /\ UNCHANGED <<calls, result>>
             ELSE /\ calls' = Append(calls, [kind |-> "synthesis",
                                             idx |-> 0,
                                             failed |-> syn.failed])
                  /\ IF syn.value.type # "dict"
                     THEN /\ pc' = "raised"
                          /\ UNCHANGED result
                     ELSE /\ pc' = "done"
                          /\ result' =
                               [detailed_question_analysis |-> reports,
                                final_conclusive_report |->
                                  [overall_score |-> overall_avg,
                                   status |-> StatusOf(overall_avg),
                                   recruiter_summary |->
                                     Get(syn.value,
                                         "recruiter_executive_summary",
                                         EmptyDict),
                                   candidate_growth_plan |->
                                     Get(syn.value,
                                         "candidate_holistic_feedback",
                                         EmptyDict)]]
    /\ UNCHANGED <<payloads, reports, scores, overall_avg,
                   qPayload, qOut, sPrev, sLast>>

Init ==
    /\ pc = "loop"
    /\ payloads \in Batches
    /\ reports = << >>
    /\ scores = << >>
    /\ overall_avg = 0
    /\ calls = << >>
    /\ result = None
    /\ qPayload = None
    /\ qOut = None
    /\ sPrev = None
    /\ sLast = None

Next == AnalyzeQuestion \/ Aggregate \/ Synthesize

Spec == Init /\ [][Next]_vars

\* ------------------------------ direct calls of quantitative_check
RECURSIVE BoolSeqs(_)
BoolSeqs(n) ==
    IF n = 0 THEN { << >> }
    ELSE BoolSeqs(n - 1)
         \cup { Append(t, b) : t \in { u \in BoolSeqs(n - 1) : Len(u) = n - 1 },
                               b \in BOOLEAN }

QuantPayloads ==
    [test_case_results : BoolSeqs(MaxTests),
     syntax_error : BOOLEAN, runtime_error : BOOLEAN]

QuantCall ==
    /\ \E p \in QuantPayloads :
         /\ qPayload' = p
         /\ qOut' = quantitative_check(p)
    /\ UNCHANGED <<genVars, sPrev, sLast>>

InitIdle ==
    /\ pc = "idle"
    /\ payloads = << >>
    /\ reports = << >>
    /\ scores = << >>
    /\ overall_avg = 0
    /\ calls = << >>
    /\ result = None
    /\ qPayload = None
    /\ qOut = None
    /\ sPrev = None
    /\ sLast = None

NextQuant == QuantCall

SpecQuant == InitIdle /\ [][NextQuant]_vars

\* ------------------------------------------- direct calls of score
\* pass rates quantitative_check produces for up to MaxRateTests tests
PassRates ==
    { quantitative_check(p).value.pass_rate :
        p \in [test_case_results : BoolSeqs(MaxRateTests),
               syntax_error : {FALSE}, runtime_error : {FALSE}] }

ScoreLevels == {1, 5, 10}

ScoreKeys == {"efficiency_score", "style_score"}

\* critiques whose scores are numbers, with either score possibly missing,
\* and a reply without technical_analysis
ScoreQuals ==
    { EmptyDict }
    \cup { Dict([technical_analysis |->
                   Dict([k \in K |-> IF k = "efficiency_score"
                                      THEN Num(e) ELSE Num(st)])]) :
             K \in SUBSET ScoreKeys, e \in ScoreLevels, st \in ScoreLevels }

ScoreCall ==
    /\ \E pr \in PassRates, qual \in ScoreQuals, se \in BOOLEAN :
         /\ sPrev' = sLast
         /\ sLast' = [pass_rate |-> pr, qual |-> qual, syntax_error |-> se,
                      out |-> score([pass_rate |-> pr], qual, se)]
    /\ UNCHANGED <<genVars, qPayload, qOut>>

NextScore == ScoreCall

SpecScore == InitIdle /\ [][NextScore]_vars

\* =============================================================== claims
Missing == [type |-> "missing"]

TechOf(qual) == Get(qual, "technical_analysis", EmptyDict)

EffOf(qual) == Get(TechOf(qual), "efficiency_score", Missing)

StyleOf(qual) == Get(TechOf(qual), "style_score", Missing)

NumPassed(results) == Cardinality({ k \in 1..Len(results) : results[k] })

Abs(x) == IF x < 0 THEN -x ELSE x

QualCallsFor(i) ==
    { k \in 1..Len(calls) : calls[k].kind = "qualitative" /\ calls[k].idx = i }

SynthCalls == { k \in 1..Len(calls) : calls[k].kind = "synthesis" }

\* C1: every question report built from a submission with syntax_error set
\* carries final score 0.0, whatever its tests and its runtime_error flag,
\* both in generate's list and in the report generate returns.
C1_SyntaxErrorScoresZero ==
    /\ \A i \in 1..Len(reports) :
         payloads[i].syntax_error => reports[i].final_score = 0
    /\ pc = "done" =>
         \A i \in 1..Len(payloads) :
           payloads[i].syntax_error =>
             result.detailed_question_analysis[i].final_score = 0

C1_Witness ==
    /\ pc = "done"
    /\ \E i \in 1..Len(payloads) :
         /\ payloads[i].syntax_error
         /\ payloads[i].runtime_error
         /\ payloads[i].test_case_results = <<TRUE>>
         /\ result.detailed_question_analysis[i].final_score = 0
    /\ \E j \in 1..Len(payloads) :
         result.detailed_question_analysis[j].final_score > 0

\* C2 (as claimed): when the qualitative call of a submission without
\* syntax error fails, its question report carries a fallback critique
\* with efficiency_score 5 and style_score 5, generate does not abort on
\* it, and the other question reports are built from their own submission.
C2_FailedCallGetsFallback ==
    \A i \in 1..Len(reports) :
        (QualCallsFor(i) # {} /\ \A k \in QualCallsFor(i) : calls[k].failed)
        => /\ EffOf(reports[i].ai_analysis) = Num(5)
           /\ StyleOf(reports[i].ai_analysis) = Num(5)

\* C8 (as claimed): generate never raises, whatever the external model
\* replies.
C8_GenerateNeverRaises == pc # "raised"

\* C3: quantitative_check picks the status by syntax error > runtime error
\* > pass rate: Syntax Error with pass rate 0.0 and passed_tests 0 when
\* syntax_error is set; else Runtime Error when runtime_error is set; else
\* Completed when passed = total > 0 and Partial Pass when passed < total;
\* with no test and no syntax error the pass rate is 0.0 and nothing is
\* raised.
C3_StatusPrecedence ==
    qOut # None =>
      LET results == qPayload.test_case_results
          total   == Len(results)
          passed  == NumPassed(results)
      IN  /\ ~qOut.raised
          /\ qOut.value.total_tests = total
          /\ qPayload.syntax_error =>
               /\ qOut.value.status = "Syntax Error"
               /\ qOut.value.pass_rate = 0
               /\ qOut.value.passed_tests = 0
          /\ (~qPayload.syntax_error /\ qPayload.runtime_error) =>
               qOut.value.status = "Runtime Error"
          /\ (~qPayload.syntax_error /\ ~qPayload.runtime_error
                /\ passed = total /\ total > 0) =>
               qOut.value.status = "Completed"
          /\ (~qPayload.syntax_error /\ ~qPayload.runtime_error
                /\ passed < total) =>
               qOut.value.status = "Partial Pass"
          /\ (~qPayload.syntax_error /\ total = 0) =>
               qOut.value.pass_rate = 0

C3_Witness ==
    /\ qOut # None
    /\ ~qPayload.syntax_error
    /\ ~qPayload.runtime_error
    /\ qPayload.test_case_results = << >>
    /\ ~qOut.raised
    /\ qOut.value.pass_rate = 0
    /\ qOut.value.status = "Partial Pass"

\* C4 (as claimed): by the end of a run of generate the external model
\* has been called exactly once for the qualitative step of every
\* submission without syntax error (runtime_error set or not) and never
\* for a submission with syntax_error set, and the synthesis call is made
\* only when every submission has its final score.
C4_OneCallPerSubmission ==
    /\ pc \in {"done", "raised"} =>
         \A i \in 1..Len(payloads) :
           Cardinality(QualCallsFor(i))
             = IF payloads[i].syntax_error THEN 0 ELSE 1
    /\ SynthCalls # {} => Len(scores) = Len(payloads)

\* What the loop does guarantee in every state, aborted runs included: no
\* call for a syntax error, at most one call per submission, exactly one
\* for each analysed submission without syntax error, and the synthesis
\* call last, once, after every score.
CallDiscipline ==
    /\ \A i \in 1..Len(payloads) :
         /\ payloads[i].syntax_error => QualCallsFor(i) = {}
         /\ Cardinality(QualCallsFor(i)) <= 1
         /\ (i <= Len(scores) /\ ~payloads[i].syntax_error) =>
              Cardinality(QualCallsFor(i)) = 1
    /\ Cardinality(SynthCalls) <= 1
    /\ SynthCalls # {} =>
         /\ Len(scores) = Len(payloads)
         /\ \A k \in SynthCalls : k = Len(calls)
    /\ pc = "done" => Cardinality(SynthCalls) = 1

\* C5: in the returned report overall_score is the mean of the question
\* reports' final scores rounded to 2 decimals (0.0 for an empty batch),
\* status is "Passed" exactly when overall_score >= 70; an empty batch is
\* "Failed" and scores [100, 50, 60] give 70.00 and "Passed".
C5_OverallScoreAndStatus ==
    pc = "done" =>
      LET det == result.detailed_question_analysis
          fin == result.final_conclusive_report
          n   == Len(det)
          sum == SumSeq([i \in 1..n |-> det[i].final_score])
      IN  /\ n = 0 => fin.overall_score = 0 /\ fin.status = "Failed"
          /\ n > 0 => 2 * Abs(n * fin.overall_score - sum) <= n
          /\ fin.status \in {"Passed", "Failed"}
          /\ fin.status = "Passed" <=> fin.overall_score >= 7000
          /\ [i \in 1..n |-> det[i].final_score] = <<10000, 5000, 6000>> =>
               fin.overall_score = 7000 /\ fin.status = "Passed"

C5_Witness ==
    /\ pc = "done"
    /\ scores = <<10000, 5000, 6000>>
    /\ result.final_conclusive_report.overall_score = 7000
    /\ result.final_conclusive_report.status = "Passed"

\* C6: the returned detailed_question_analysis is as long as the batch and
\* its i-th report carries the question, the language, the metrics and the
\* score of the i-th submission.
C6_OrderPreserved ==
    pc = "done" =>
      LET det == result.detailed_question_analysis
      IN  /\ Len(det) = Len(payloads)
          /\ \A i \in 1..Len(det) :
               /\ det[i].question = payloads[i].ai_generated_coding_question
               /\ det[i].language = payloads[i].language
               /\ det[i].metrics.total_tests
                    = Len(payloads[i].test_case_results)
               /\ det[i].metrics.passed_tests
                    = IF payloads[i].syntax_error THEN 0
                      ELSE NumPassed(payloads[i].test_case_results)
               /\ det[i].metrics.status = "Syntax Error"
                    <=> payloads[i].syntax_error
               /\ det[i].final_score = scores[i]
               /\ payloads[i].syntax_error => det[i].final_score = 0
               /\ ~payloads[i].syntax_error =>
                    2 * Abs(100 * det[i].final_score
                            - (150000 + 40 * det[i].metrics.pass_rate
                               + 20000 * (IF EffOf(det[i].ai_analysis) = Missing
                                          THEN 0
                                          ELSE EffOf(det[i].ai_analysis).v)
                               + 25000 * (IF StyleOf(det[i].ai_analysis) = Missing
                                          THEN 0
                                          ELSE StyleOf(det[i].ai_analysis).v)))
                      <= 100

C6_Witness ==
    /\ pc = "done"
    /\ Len(payloads) = 3
    /\ payloads[1].ai_generated_coding_question = "Q3"
    /\ payloads[2].ai_generated_coding_question = "Q1"
    /\ payloads[3].ai_generated_coding_question = "Q2"
    /\ result.detailed_question_analysis[1].question = "Q3"
    /\ result.detailed_question_analysis[3].question = "Q2"
    /\ \E i \in QualCallsFor(2) : calls[i].failed

SynthFailed ==
    /\ calls # << >>
    /\ calls[Len(calls)].kind = "synthesis"
    /\ calls[Len(calls)].failed

\* C7: when the synthesis call fails, generate still returns: the summary
\* and the growth plan are empty, and detailed_question_analysis and
\* overall_score are the values computed before the call, which are also
\* the ones every returned report carries (a successful synthesis included).
C7_SynthesisFailureDegrades ==
    /\ SynthFailed =>
          /\ pc = "done"
          /\ result.final_conclusive_report.recruiter_summary = EmptyDict
          /\ result.final_conclusive_report.candidate_growth_plan = EmptyDict
    /\ pc = "done" =>
          /\ result.detailed_question_analysis = reports
          /\ result.final_conclusive_report.overall_score = overall_avg
          /\ result.final_conclusive_report.status = StatusOf(overall_avg)
          /\ Len(reports) = Len(payloads)

C7_Witness ==
    /\ SynthFailed
    /\ pc = "done"
    /\ Len(reports) = 2
    /\ result.final_conclusive_report.overall_score > 0
    /\ result.final_conclusive_report.recruiter_summary = EmptyDict

BothScored ==
    /\ sPrev # None
    /\ sLast # None
    /\ ~sPrev.syntax_error
    /\ ~sLast.syntax_error

\* C9: of two calls of score without syntax error that differ in only one
\* of pass rate, efficiency score or style score, the one with the larger
\* value of that input returns at least as much as the other.
C9_ScoreMonotone ==
    BothScored =>
      /\ ~sPrev.out.raised /\ ~sLast.out.raised
      /\ (sPrev.qual = sLast.qual /\ sPrev.pass_rate <= sLast.pass_rate)
           => sPrev.out.value <= sLast.out.value
      /\ (/\ sPrev.pass_rate = sLast.pass_rate
          /\ StyleOf(sPrev.qual) = StyleOf(sLast.qual)
          /\ EffOf(sPrev.qual) # Missing /\ EffOf(sLast.qual) # Missing
          /\ EffOf(sPrev.qual).v <= EffOf(sLast.qual).v)
           => sPrev.out.value <= sLast.out.value
      /\ (/\ sPrev.pass_rate = sLast.pass_rate
          /\ EffOf(sPrev.qual) = EffOf(sLast.qual)
          /\ StyleOf(sPrev.qual) # Missing /\ StyleOf(sLast.qual) # Missing
          /\ StyleOf(sPrev.qual).v <= StyleOf(sLast.qual).v)
           => sPrev.out.value <= sLast.out.value

C9_Witness ==
    /\ BothScored
    /\ sPrev.pass_rate = sLast.pass_rate
    /\ StyleOf(sPrev.qual) = StyleOf(sLast.qual)
    /\ EffOf(sPrev.qual) = Num(1)
    /\ EffOf(sLast.qual) = Num(10)
    /\ sPrev.out.value < sLast.out.value

ScoreOrZero(v) == IF v = Missing THEN 0 ELSE v.v

\* C10: without syntax error score returns 15 + 40*(pass_rate/100)
\* + 20*(efficiency_score/10) + 25*(style_score/10) rounded to 2 decimals,
\* a missing score counting as 0; the result lies in 0..100 for a pass
\* rate in 0..100 and scores in 1..10, and is exactly 100.00 for pass rate
\* 100 and both scores 10.
C10_WeightedSum ==
    (sLast # None /\ ~sLast.syntax_error) =>
      LET e     == ScoreOrZero(EffOf(sLast.qual))
          st    == ScoreOrZero(StyleOf(sLast.qual))
          exact == 150000 + 40 * sLast.pass_rate + 20000 * e + 25000 * st
      IN  /\ ~sLast.out.raised
          /\ 2 * Abs(100 * sLast.out.value - exact) < 100
          /\ (sLast.pass_rate \in 0..10000 /\ e \in 1..10 /\ st \in 1..10)
               => sLast.out.value \in 0..10000
          /\ (sLast.pass_rate = 10000 /\ e = 10 /\ st = 10)
               => sLast.out.value = 10000

C10_Witness ==
    /\ sLast # None
    /\ ~sLast.syntax_error
    /\ sLast.pass_rate = 10000
    /\ EffOf(sLast.qual) = Num(10)
    /\ StyleOf(sLast.qual) = Num(10)
    /\ sLast.out.value = 10000
    /\ sPrev # None
    /\ ~sPrev.syntax_error
    /\ EffOf(sPrev.qual) = Missing
    /\ sPrev.pass_rate = 5000
    /\ StyleOf(sPrev.qual) = Num(10)
    /\ sPrev.out.value = 6000

====
